---------------------------- MODULE Spec2Model ----------------------------
(***************************************************************************)
(* Model of the three entry points of the repository:                      *)
(*   A  the edge worker of src/src/index.js (HTMLRewriter injection),      *)
(*   B  the edge worker of src/server.js lines 1-108 (prompt injection),   *)
(*   C  the local Node server of src/server.js lines 110-251.              *)
(*                                                                         *)
(* Strings that the code inspects (the text returned by the generation     *)
(* API, the generated document, the prompt) are sequences of tokens.  A    *)
(* token stands for a run of characters that the code's regular            *)
(* expressions and the HTML rewriter treat as a unit.                      *)
(***************************************************************************)
EXTENDS Integers, Sequences, FiniteSets, TLC

VARIABLES entry, env, enabled, pc, req, upstream, out,
          sanVariant, sanInput, sanCur, sanOnce, sanCount

vars == <<entry, env, enabled, pc, req, upstream, out,
          sanVariant, sanInput, sanCur, sanOnce, sanCount>>

pipeVars == <<entry, env, enabled, pc, req, upstream, out>>
sanVars == <<sanVariant, sanInput, sanCur, sanOnce, sanCount>>

-----------------------------------------------------------------------------
(* Bounds *)

\* Number of request slots that may be in flight together (SpecConc).
NReq == 2
\* Longest generated document, in tokens (Spec).
MaxDocLen == 4
\* Longest raw string handed to the sanitizer (SpecSan).
MaxLen == 4

Reqs == 1..NReq

-----------------------------------------------------------------------------
(* Tokens *)

\* the Markdown code-fence marker: three backquotes
Fence == "[fence]"
HtmlTag == "html"
NL == "LF"
SP == "SPACE"
X == "x"
HeadOpen == "<head>"
HeadClose == "</head>"
ScriptGtag == "<script src=gtag/js?id=>"
GtagConfig == "<script>gtag('config')</script>"
ScriptAds == "<script src=adsbygoogle.js?client=>"

\* \s of the regular expressions and the characters String.prototype.trim drops
IsSpace(t) == t \in {NL, SP}

RECURSIVE SeqsUpTo(_, _)
SeqsUpTo(S, n) ==
    IF n = 0 THEN {<<>>}
    ELSE LET shorter == SeqsUpTo(S, n - 1)
         IN  shorter \cup {Append(s, t) : s \in {u \in shorter : Len(u) = n - 1}, t \in S}

-----------------------------------------------------------------------------
(* The fence-stripping step *)

StartsWith(s, p) == Len(s) >= Len(p) /\ SubSeq(s, 1, Len(p)) = p
EndsWith(s, p) == Len(s) >= Len(p) /\ SubSeq(s, Len(s) - Len(p) + 1, Len(s)) = p
Drop(s, n) == SubSeq(s, n + 1, Len(s))
DropLast(s, n) == SubSeq(s, 1, Len(s) - n)

RECURSIVE SpaceRun(_)
\* length of the whitespace run at the start of s (the greedy \s*)
SpaceRun(s) == IF s # <<>> /\ IsSpace(Head(s)) THEN 1 + SpaceRun(Tail(s)) ELSE 0

RECURSIVE TrimStart(_)
TrimStart(s) == IF s # <<>> /\ IsSpace(Head(s)) THEN TrimStart(Tail(s)) ELSE s

RECURSIVE TrimEnd(_)
TrimEnd(s) == IF s # <<>> /\ IsSpace(s[Len(s)]) THEN TrimEnd(DropLast(s, 1)) ELSE s

\* String.prototype.trim
Trim(s) == TrimEnd(TrimStart(s))

\* s.replace(/^[fence]html\n/, '')
StripLeadA(s) == IF StartsWith(s, <<Fence, HtmlTag, NL>>) THEN Drop(s, 3) ELSE s

\* s.replace(/\n[fence]$/, '')
StripTrailA(s) == IF EndsWith(s, <<NL, Fence>>) THEN DropLast(s, 2) ELSE s

\* index.js line 107
SanitizeA(s) == StripTrailA(StripLeadA(s))

\* s.replace(/^[fence]html\s*|[fence]$/g, ''): the first alternative can match at
\* offset 0 only, the second at the end of the input only ($ without the m
\* flag), and a global replace resumes after the first match.
ReplaceFencesB(s) ==
    LET lead == IF StartsWith(s, <<Fence, HtmlTag>>)
                THEN 2 + SpaceRun(Drop(s, 2)) ELSE 0
        rest == Drop(s, lead)
    IN  IF rest # <<>> /\ rest[Len(rest)] = Fence THEN DropLast(rest, 1) ELSE rest

\* SanitizeB without the final trim()
SanitizeB_NoTrim(s) == ReplaceFencesB(s)

\* server.js line 103 and line 200
SanitizeB(s) == Trim(ReplaceFencesB(s))

Sanitize(variant, s) == IF variant = "A" THEN SanitizeA(s) ELSE SanitizeB(s)


-----------------------------------------------------------------------------
(* Requests and configuration *)

Favicon == "/favicon.ico"
NoHeader == ""
Absent == ""

Methods == {"GET", "POST"}
Paths == {Favicon, "/about"}
Queries == {"", "?v=1"}
UserAgents == {NoHeader, "TestAgent/1.0"}

\* An inbound request: the request-target is path followed by query.
Requests == [method : Methods, path : Paths, query : Queries, ua : UserAgents]

NoReq == [method |-> "", path |-> "", query |-> "", ua |-> NoHeader]

\* new URL(request.url).pathname of the two workers
Pathname(r) == r.path

\* req.url of the Node server: the request-target, query string included
ReqUrl(r) == <<r.path, r.query>>

\* The secrets / variables of the deployment.  An unset variable and an empty
\* one are both falsy in the code and are both written Absent.
Envs == [apiKey : {Absent, "KEY"}, gaId : {Absent, "G-TEST"}, adsId : {Absent, "ca-pub-TEST"}]

-----------------------------------------------------------------------------
(* Snippets and prompts *)

\* server.js line 66 and line 153
AdSenseCode(id) == <<ScriptAds, id>>

\* server.js line 67
AnalyticsCode(id) == <<ScriptGtag, id, GtagConfig, id>>

Or(v, dflt) == IF v # Absent THEN v ELSE dflt

\* index.js line 73 / server.js line 21 and line 224
UserAgentA(r) == Or(r.ua, "unknown")
UserAgentB(r) == Or(r.ua, "Unknown")

\* index.js line 75
PromptA(r) ==
    <<"You are an HTTP server; method", r.method, "path", Pathname(r),
      "User-Agent", UserAgentA(r),
      "charset=utf-8 in head; inline styles only; HTML only; one absolute link">>

\* server.js lines 58-59
AdSenseIdB(e) == Or(e.adsId, "ca-pub-XXXXXXXXXXXXXXXX")
AnalyticsIdB(e) == Or(e.gaId, "G-XXXXXXXXXX")

\* server.js lines 69-79
PromptB(r, e) ==
    <<"You are an HTTP server; method", r.method, "path", Pathname(r),
      "userAgent", UserAgentB(r), "charset=utf-8 in head", "put in head:">>
    \o AdSenseCode(AdSenseIdB(e))
    \o <<"and:">> \o AnalyticsCode(AnalyticsIdB(e))
    \o <<"inline styles only; HTML only; one absolute link">>

\* server.js line 152
AdSenseIdC == "ca-pub-XXXXXXXXXXXXXXXX"

\* server.js lines 155-164
PromptC(r) ==
    <<"You are an HTTP server; method", r.method, "path">> \o ReqUrl(r)
    \o <<"userAgent", UserAgentB(r), "charset=utf-8 in head", "put in head:">>
    \o AdSenseCode(AdSenseIdC)
    \o <<"inline styles only; HTML only; one absolute link">>

-----------------------------------------------------------------------------
(* Structural injection (entry A) *)

\* HeadInjector.element with its two blocks in the other order
HeadInjector_element_AdsFirst(e) ==
    (IF e.adsId # Absent THEN AdSenseCode(e.adsId) ELSE <<>>)
    \o (IF e.gaId # Absent THEN AnalyticsCode(e.gaId) ELSE <<>>)

\* HeadInjector.element: what the handler appends to one head element
HeadInjector_element(e) ==
    (IF e.gaId # Absent THEN AnalyticsCode(e.gaId) ELSE <<>>)
    \o (IF e.adsId # Absent THEN AdSenseCode(e.adsId) ELSE <<>>)

RECURSIVE RewriteFrom(_, _, _)
\* HTMLRewriter.on('head', handler).transform: the handler runs once for every
\* head element, and what it appends goes right before that element's end tag.
RewriteFrom(doc, open, app) ==
    IF doc = <<>> THEN <<>>
    ELSE LET t == Head(doc)
         IN  IF t = HeadOpen THEN <<t>> \o RewriteFrom(Tail(doc), TRUE, app)
             ELSE IF t = HeadClose /\ open
                  THEN app \o <<t>> \o RewriteFrom(Tail(doc), FALSE, app)
                  ELSE <<t>> \o RewriteFrom(Tail(doc), open, app)

Rewrite(doc, e) == RewriteFrom(doc, FALSE, HeadInjector_element(e))

-----------------------------------------------------------------------------
(* What the generation API may answer *)

RECURSIVE Closed(_, _)
\* every head element of the document is closed and none is nested
Closed(doc, open) ==
    IF doc = <<>> THEN ~open
    ELSE IF Head(doc) = HeadOpen THEN ~open /\ Closed(Tail(doc), TRUE)
    ELSE IF Head(doc) = HeadClose THEN open /\ Closed(Tail(doc), FALSE)
    ELSE Closed(Tail(doc), open)

\* Generated documents: markup with any number of head elements.
Docs == {d \in SeqsUpTo({HeadOpen, HeadClose, X}, MaxDocLen) : d # <<>> /\ Closed(d, FALSE)}

\* A document inside a Markdown code fence tagged html.
Fenced(d) == <<Fence, HtmlTag, NL>> \o d \o <<NL, Fence>>

\* The text part of a success envelope: bare, fenced, or fenced with a
\* newline after the closing fence.
Texts == Docs \cup {Fenced(d) : d \in Docs} \cup {Fenced(d) \o <<NL>> : d \in Docs}

\* The JSON envelope, by how far the path candidates[0].content.parts[0].text
\* exists: cands and parts are the array lengths, -1 for a missing field.
Envelope(c, hc, p, ht, t) ==
    [cands |-> c, content |-> hc, parts |-> p, hasText |-> ht, text |-> t]

NoEnvelope == Envelope(-1, FALSE, -1, FALSE, <<>>)

MalformedEnvelopes ==
    { Envelope(-1, FALSE, -1, FALSE, <<>>),    \* no candidates field
      Envelope(0, FALSE, -1, FALSE, <<>>),     \* candidates: []
      Envelope(1, FALSE, -1, FALSE, <<>>),     \* candidate without content
      Envelope(1, TRUE, -1, FALSE, <<>>),      \* content without parts
      Envelope(1, TRUE, 0, FALSE, <<>>),       \* parts: []
      Envelope(1, TRUE, 1, FALSE, <<>>),       \* first part without text
      Envelope(1, TRUE, 1, TRUE, <<>>) }       \* text: ""

TextEnvelope(t) == Envelope(1, TRUE, 1, TRUE, t)

Statuses == {200, 503}
\* Response.ok
Ok(status) == status >= 200 /\ status <= 299


-----------------------------------------------------------------------------
(* What a handler emits: outbound calls and responses *)

HtmlType == "text/html; charset=utf-8"
PlainType == "text/plain; charset=utf-8"
IconType == "image/x-icon"
\* no Content-Type given by the code
NoType == ""

\* A response body: the fixed text or page it is (page), the exception
\* message interpolated into it (msg), the upstream status code written in
\* it (code, 0 for none) and the generated document it carries (doc).
Body(page, msg, code, doc) == [page |-> page, msg |-> msg, code |-> code, doc |-> doc]
EmptyBody == Body("", "", 0, <<>>)

\* fetch(apiUrl, {method: 'POST', ...}) with ?key= and the prompt as sole part
Call(key, prompt) ==
    [type |-> "call", status |-> 0, ctype |-> NoType, body |-> EmptyBody,
     key |-> key, prompt |-> prompt]

Response(status, ctype, body) ==
    [type |-> "response", status |-> status, ctype |-> ctype, body |-> body,
     key |-> "", prompt |-> <<>>]

\* The outcome of one run of a handler up to its next await: where it
\* suspends (or "done") and what it emitted on the way.
Step(next, emit) == [pc |-> next, emit |-> emit]
Respond(status, ctype, body) == Step("done", <<Response(status, ctype, body)>>)

\* A thrown or rejected error: its message and the status code the message
\* spells out (0 for none).
Error(msg, code) == [msg |-> msg, code |-> code]
NetworkError == Error("fetch failed", 0)
BodyReadError == Error("body stream failed or is not valid JSON", 0)
TypeErrorUndefined == Error("Cannot read properties of undefined", 0)

-----------------------------------------------------------------------------
(* Entry A: src/src/index.js *)

\* index.js lines 123-143: the first argument is the body; the init
\* dictionary's body member (the page with error.message) is not read.
CatchA(err) ==
    Respond(500, HtmlType,
            Body("An internal error occurred while processing the request.", "", 0, <<>>))

UnexpectedFormatA ==
    Respond(500, NoType,
            Body("Received an unexpected response format from the AI model.", "", 0, <<>>))

\* index.js lines 52-92
StartA(r, e) ==
    IF e.apiKey = Absent
    THEN Respond(500, PlainType,
                 Body("AI service is not configured. Administrator needs to set the GEMINI_API_KEY secret.",
                      "", 0, <<>>))
    ELSE IF Pathname(r) = Favicon THEN Respond(204, NoType, EmptyBody)
    ELSE Step("awaitFetch", <<Call(e.apiKey, PromptA(r))>>)

\* index.js lines 88-100: the fetch settles
OnFetchA(f) ==
    IF f.kind = "reject" THEN CatchA(NetworkError) ELSE Step("awaitBody", <<>>)

\* index.js lines 94-121: the body read (text() or json()) settles
OnBodyA(status, b, e) ==
    IF b.kind = "reject" THEN CatchA(BodyReadError)
    ELSE IF ~Ok(status)
    THEN Respond(502, NoType,
                 Body("Failed to get a response from the AI model. Status:", "", status, <<>>))
    ELSE LET v == b.envelope
         IN  IF v.cands = -1 THEN UnexpectedFormatA
             ELSE IF v.cands = 0 THEN CatchA(TypeErrorUndefined)
             ELSE IF ~v.content THEN UnexpectedFormatA
             ELSE IF v.parts = -1 THEN UnexpectedFormatA
             ELSE IF v.parts = 0 THEN CatchA(TypeErrorUndefined)
             ELSE IF ~v.hasText \/ v.text = <<>> THEN UnexpectedFormatA
             ELSE Respond(200, HtmlType, Body("", "", 0, Rewrite(SanitizeA(v.text), e)))

-----------------------------------------------------------------------------
(* Entry B: src/server.js lines 1-108 *)

\* server.js lines 34-42
CatchB(err) == Respond(500, HtmlType, Body("500 - Worker Error", err.msg, err.code, <<>>))

\* server.js lines 10-26 and 54-92
StartB(r, e) ==
    IF Pathname(r) = Favicon THEN Respond(204, NoType, EmptyBody)
    ELSE IF e.apiKey = Absent
    THEN CatchB(Error("GEMINI_API_KEY is not configured. Please set it in your Worker's settings.", 0))
    ELSE Step("awaitFetch", <<Call(e.apiKey, PromptB(r, e))>>)

\* server.js lines 88-99
OnFetchB(f) ==
    IF f.kind = "reject" THEN CatchB(NetworkError) ELSE Step("awaitBody", <<>>)

\* server.js lines 94-107 and 26-33
OnBodyB(status, b) ==
    IF b.kind = "reject" THEN CatchB(BodyReadError)
    ELSE IF ~Ok(status)
    THEN CatchB(Error("Gemini API request failed with status", status))
    ELSE LET v == b.envelope
         IN  IF v.cands >= 1 /\ v.content /\ v.parts >= 1 /\ v.hasText /\ v.text # <<>>
             THEN Respond(200, HtmlType, Body("", "", 0, SanitizeB(v.text)))
             ELSE CatchB(Error("Failed to get valid content from the AI. Check Worker logs for details.", 0))

-----------------------------------------------------------------------------
(* Entry C: src/server.js lines 110-251 *)

\* server.js lines 207-210 and 231-232: the error page is returned as the
\* generated content and sent with status 200
CatchC(err) ==
    Respond(200, HtmlType, Body("500 - internal server error page", err.msg, err.code, <<>>))

\* server.js lines 214-229 and 150-186
StartC(r, e) ==
    IF ReqUrl(r) = <<Favicon, "">> THEN Respond(204, IconType, EmptyBody)
    ELSE Step("awaitFetch", <<Call(e.apiKey, PromptC(r))>>)

\* server.js lines 182-193
OnFetchC(f) ==
    IF f.kind = "reject" THEN CatchC(NetworkError) ELSE Step("awaitBody", <<>>)

\* server.js lines 188-210 and 229-232
OnBodyC(status, b) ==
    IF b.kind = "reject" THEN CatchC(BodyReadError)
    ELSE IF ~Ok(status)
    THEN CatchC(Error("API request failed with status", status))
    ELSE LET v == b.envelope
         IN  IF v.cands >= 1 /\ v.content /\ v.parts >= 1
             THEN IF ~v.hasText THEN CatchC(TypeErrorUndefined)
                  ELSE Respond(200, HtmlType, Body("", "", 0, SanitizeB(v.text)))
             ELSE Respond(200, HtmlType,
                          Body("error page: no valid content from the AI", "", 0, <<>>))

-----------------------------------------------------------------------------
(* The handlers as steps of a request *)

Start(en, r, e) ==
    IF en = "A" THEN StartA(r, e) ELSE IF en = "B" THEN StartB(r, e) ELSE StartC(r, e)

OnFetch(en, f) ==
    IF en = "A" THEN OnFetchA(f) ELSE IF en = "B" THEN OnFetchB(f) ELSE OnFetchC(f)

OnBody(en, status, b, e) ==
    IF en = "A" THEN OnBodyA(status, b, e)
    ELSE IF en = "B" THEN OnBodyB(status, b) ELSE OnBodyC(status, b)

NoUpstream == [fetch |-> "none", status |-> 0, body |-> "none", envelope |-> NoEnvelope]

FetchOutcomes ==
    {[kind |-> "reject", status |-> 0]} \cup {[kind |-> "response", status |-> st] : st \in Statuses}

BodyOutcomes(status, texts) ==
    {[kind |-> "reject", envelope |-> NoEnvelope]}
    \cup (IF Ok(status)
          THEN {[kind |-> "json", envelope |-> v] :
                    v \in MalformedEnvelopes \cup {TextEnvelope(t) : t \in texts}}
          ELSE {[kind |-> "text", envelope |-> NoEnvelope]})

\* The host invokes the handler with an inbound request.
Receive(i, r) ==
    /\ i \in enabled
    /\ pc[i] = "idle"
    /\ LET st == Start(entry, r, env)
       IN  /\ pc' = [pc EXCEPT ![i] = st.pc]
           /\ out' = [out EXCEPT ![i] = @ \o st.emit]
    /\ req' = [req EXCEPT ![i] = r]
    /\ UNCHANGED <<entry, env, enabled, upstream, sanVars>>

\* The outbound fetch settles: a response with a status, or a rejection.
FetchSettles(i, f) ==
    /\ pc[i] = "awaitFetch"
    /\ LET st == OnFetch(entry, f)
       IN  /\ pc' = [pc EXCEPT ![i] = st.pc]
           /\ out' = [out EXCEPT ![i] = @ \o st.emit]
    /\ upstream' = [upstream EXCEPT ![i].fetch = f.kind, ![i].status = f.status]
    /\ UNCHANGED <<entry, env, enabled, req, sanVars>>

\* The read of the upstream body (text() or json()) settles.
BodySettles(i, b) ==
    /\ pc[i] = "awaitBody"
    /\ LET st == OnBody(entry, upstream[i].status, b, env)
       IN  /\ pc' = [pc EXCEPT ![i] = st.pc]
           /\ out' = [out EXCEPT ![i] = @ \o st.emit]
    /\ upstream' = [upstream EXCEPT ![i].body = b.kind, ![i].envelope = b.envelope]
    /\ UNCHANGED <<entry, env, enabled, req, sanVars>>

-----------------------------------------------------------------------------
(* The sanitizer on its own *)

SanAlphabet == {Fence, HtmlTag, NL, SP, X}

SanIdle ==
    /\ sanVariant = "A"
    /\ sanInput = <<>>
    /\ sanCur = <<>>
    /\ sanOnce = <<>>
    /\ sanCount = 0

\* One more application of the replace chain to its own output.
SanitizeStep ==
    /\ sanCount < 2
    /\ sanCur' = Sanitize(sanVariant, sanCur)
    /\ sanOnce' = IF sanCount = 0 THEN sanCur' ELSE sanOnce
    /\ sanCount' = sanCount + 1
    /\ UNCHANGED <<sanVariant, sanInput, pipeVars>>

-----------------------------------------------------------------------------
(* Specifications *)

Entries == {"A", "B", "C"}

\* The local server reads no analytics or ad identifier.
EnvsOf(en) == IF en = "C" THEN {e \in Envs : e.gaId = Absent /\ e.adsId = Absent} ELSE Envs

PipeInit(slots) ==
    /\ entry \in Entries
    /\ env \in EnvsOf(entry)
    /\ enabled = slots
    /\ pc = [i \in Reqs |-> "idle"]
    /\ req = [i \in Reqs |-> NoReq]
    /\ upstream = [i \in Reqs |-> NoUpstream]
    /\ out = [i \in Reqs |-> <<>>]

\* One request at a time, every input.
Init == PipeInit({1}) /\ SanIdle

Next ==
    \E i \in Reqs :
        \/ \E r \in Requests : Receive(i, r)
        \/ \E f \in FetchOutcomes : FetchSettles(i, f)
        \/ \E b \in BodyOutcomes(upstream[i].status, Texts) : BodySettles(i, b)

Spec == Init /\ [][Next]_vars

\* Several requests in flight, with one representative per class of input.
RequestsConc == {r \in Requests : r.method = "GET" /\ r.ua = NoHeader}
TextsConc == {Fenced(<<HeadOpen, HeadClose>>)}

InitConc == PipeInit(Reqs) /\ SanIdle

NextConc ==
    \E i \in Reqs :
        \/ \E r \in RequestsConc : Receive(i, r)
        \/ \E f \in FetchOutcomes : FetchSettles(i, f)
        \/ \E b \in BodyOutcomes(upstream[i].status, TextsConc) : BodySettles(i, b)

SpecConc == InitConc /\ [][NextConc]_vars

\* The sanitizer applied to every short string.
InitSan ==
    /\ entry = "A"
    /\ env = [apiKey |-> Absent, gaId |-> Absent, adsId |-> Absent]
    /\ enabled = {}
    /\ pc = [i \in Reqs |-> "idle"]
    /\ req = [i \in Reqs |-> NoReq]
    /\ upstream = [i \in Reqs |-> NoUpstream]
    /\ out = [i \in Reqs |-> <<>>]
    /\ sanVariant \in {"A", "B"}
    /\ sanInput \in SeqsUpTo(SanAlphabet, MaxLen)
    /\ sanCur = sanInput
    /\ sanOnce = <<>>
    /\ sanCount = 0

NextSan == SanitizeStep

SpecSan == InitSan /\ [][NextSan]_vars


-----------------------------------------------------------------------------
(* Vocabulary of the properties *)

Done(i) == pc[i] = "done"
Received(i) == pc[i] # "idle"
IsCall(o) == o.type = "call"
IsResponse(o) == o.type = "response"
Calls(i) == SelectSeq(out[i], IsCall)
Responses(i) == SelectSeq(out[i], IsResponse)
\* the response of a request that has answered once
TheResponse(i) == Responses(i)[1]

Count(s, tok) == Cardinality({k \in 1..Len(s) : s[k] = tok})
FirstIndex(s, tok) == CHOOSE k \in 1..Len(s) : s[k] = tok /\ \A j \in 1..(k - 1) : s[j] # tok
Has(s, tok) == \E k \in 1..Len(s) : s[k] = tok

\* position k of document s lies inside a head element
InHead(s, k) ==
    \E a \in 1..(k - 1) :
        /\ s[a] = HeadOpen
        /\ \A j \in (a + 1)..k : s[j] # HeadClose
        /\ \E b \in (k + 1)..Len(s) : s[b] = HeadClose

SnippetTokens == {ScriptGtag, GtagConfig, ScriptAds}
IdTokens == {"G-TEST", "ca-pub-TEST", "G-XXXXXXXXXX", "ca-pub-XXXXXXXXXXXXXXXX"}
IsMarkup(t) == t \notin SnippetTokens \cup IdTokens
\* a document with every snippet taken out again
WithoutSnippets(s) == SelectSeq(s, IsMarkup)

\* the upstream call was answered with a success status and a JSON envelope
GotEnvelope(i) ==
    Done(i) /\ upstream[i].fetch = "response" /\ Ok(upstream[i].status)
            /\ upstream[i].body = "json"

\* the request ended with the generated page
Served(i) == GotEnvelope(i) /\ Len(Responses(i)) = 1 /\ TheResponse(i).status = 200
                /\ TheResponse(i).body.page = ""

-----------------------------------------------------------------------------
(* C1 *)

\* C1: in every entry point a request whose path is /favicon.ico is answered
\* with status 204 and an empty body, whatever the method, the user-agent and
\* the configuration (a missing credential included).
C1_FaviconNoContent ==
    \A i \in Reqs :
        (Done(i) /\ req[i].path = Favicon)
            => /\ Len(Responses(i)) = 1
               /\ TheResponse(i).status = 204
               /\ TheResponse(i).body = EmptyBody

-----------------------------------------------------------------------------
(* C2 *)

\* C2: in every entry point, a request whose path is not /favicon.ico, handled
\* with an empty or absent credential, makes no outbound call and is answered
\* with status 500.
C2_MissingCredentialIs500 ==
    \A i \in Reqs :
        (Received(i) /\ req[i].path # Favicon /\ env.apiKey = Absent)
            => /\ Calls(i) = <<>>
               /\ Done(i)
               /\ Len(Responses(i)) = 1
               /\ TheResponse(i).status = 500

-----------------------------------------------------------------------------
(* C3 *)

\* C3: in every entry point, when the generation API answers the outbound
\* call with a non-success status, the inbound request is answered with status
\* 502 and a body that contains the upstream status code.
C3_UpstreamFailureIs502 ==
    \A i \in Reqs :
        (Done(i) /\ upstream[i].fetch = "response" /\ ~Ok(upstream[i].status)
                 /\ upstream[i].body = "text")
            => /\ Len(Responses(i)) = 1
               /\ TheResponse(i).status = 502
               /\ TheResponse(i).body.code = upstream[i].status

-----------------------------------------------------------------------------
(* C4 *)

\* no candidates, an empty candidates list, missing content or parts, or a
\* first part without text
CannotExtract(e) == e.cands < 1 \/ ~e.content \/ e.parts < 1 \/ ~e.hasText

IndicatesUnexpectedFormat(b) ==
    \/ b.page = "Received an unexpected response format from the AI model."
    \/ b.page = "error page: no valid content from the AI"
    \/ b.msg = "Failed to get valid content from the AI. Check Worker logs for details."

\* C4: in every entry point, a success status with an envelope from which the
\* first text part of the first candidate cannot be extracted is answered with
\* status 500 and a body that indicates an unexpected response format, never
\* with 200.
C4_MalformedEnvelopeIs500 ==
    \A i \in Reqs :
        (GotEnvelope(i) /\ CannotExtract(upstream[i].envelope))
            => /\ Len(Responses(i)) = 1
               /\ TheResponse(i).status = 500
               /\ IndicatesUnexpectedFormat(TheResponse(i).body)

-----------------------------------------------------------------------------
(* C5 *)

\* the envelope's text is document d inside an html fence
FencedCase(i, d) ==
    /\ GotEnvelope(i)
    /\ req[i].path # Favicon
    /\ env.apiKey # Absent
    /\ upstream[i].envelope = TextEnvelope(Fenced(d))

\* C5: in every entry point, for a request that is not for /favicon.ico and
\* with a credential present, a well-formed success envelope whose first text
\* part is a document inside a leading html fence and a trailing fence is
\* answered with status 200, Content-Type text/html; charset=utf-8 and the
\* document with both fences removed as body, to which only the configured
\* snippets are added (none at all by the two prompt-driven entry points).
C5_FencedDocumentServed ==
    \A i \in Reqs : \A d \in Docs :
        FencedCase(i, d)
            => /\ Len(Responses(i)) = 1
               /\ LET r == TheResponse(i)
                  IN  /\ r.status = 200
                      /\ r.ctype = HtmlType
                      /\ r.body.page = "" /\ r.body.msg = "" /\ r.body.code = 0
                      /\ WithoutSnippets(r.body.doc) = d
                      /\ entry # "A" => r.body.doc = d
                      /\ \A k \in 1..Len(r.body.doc) :
                            r.body.doc[k] \in IdTokens
                                => r.body.doc[k] \in {env.gaId, env.adsId} \ {Absent}

C5_Witness ==
    \E i \in Reqs : \E d \in Docs :
        /\ FencedCase(i, d)
        /\ Has(d, HeadOpen)
        /\ entry = "A" /\ env.gaId # Absent
        /\ TheResponse(i).status = 200
        /\ Has(TheResponse(i).body.doc, ScriptGtag)

-----------------------------------------------------------------------------
(* C6 *)

\* C6: the fence-stripping step is idempotent in every variant: applying the
\* replace chain twice gives the same string as applying it once.
C6_SanitizeIdempotent == sanCount = 2 => sanCur = sanOnce

-----------------------------------------------------------------------------
(* C7 *)

BothConfigured == env.gaId # Absent /\ env.adsId # Absent

\* C7 as stated: with both identifiers configured the served document holds
\* exactly one analytics reference and exactly one ad reference, both inside
\* head and the analytics one first, whatever the generated document; and the
\* prompt of the prompt-driven worker names the analytics snippet before the
\* ad snippet.
C7_ExactlyOneOfEach ==
    \A i \in Reqs :
        /\ (entry = "A" /\ BothConfigured /\ Served(i))
            => LET o == TheResponse(i).body.doc
               IN  /\ Count(o, ScriptGtag) = 1
                   /\ Count(o, ScriptAds) = 1
                   /\ InHead(o, FirstIndex(o, ScriptGtag))
                   /\ InHead(o, FirstIndex(o, ScriptAds))
                   /\ FirstIndex(o, ScriptGtag) < FirstIndex(o, ScriptAds)
        /\ (entry = "B" /\ BothConfigured /\ Calls(i) # <<>>)
            => LET p == Calls(i)[1].prompt
               IN  /\ Count(p, ScriptGtag) = 1
                   /\ Count(p, ScriptAds) = 1
                   /\ FirstIndex(p, ScriptGtag) < FirstIndex(p, ScriptAds)

\* the analytics snippet followed by the ad snippet
BothSnippets == <<ScriptGtag, env.gaId, GtagConfig, env.gaId, ScriptAds, env.adsId>>

\* C7 amended: with both identifiers configured, the structural variant
\* appends to every head element of the generated document exactly one
\* analytics snippet directly followed by exactly one ad snippet, as the last
\* children of that element, and adds nothing anywhere else: a document with
\* k head elements is served with k references of each kind (none when it has
\* no head element).  The prompt of the prompt-driven worker holds exactly one
\* snippet of each kind, the ad snippet before the analytics snippet.
C7_OnePairPerHead ==
    \A i \in Reqs :
        /\ (entry = "A" /\ BothConfigured /\ Served(i))
            => LET o == TheResponse(i).body.doc
                   heads == Count(upstream[i].envelope.text, HeadOpen)
               IN  /\ \A k \in 1..Len(o) :
                          o[k] = HeadClose
                              => k > 6 /\ SubSeq(o, k - 6, k - 1) = BothSnippets
                   /\ Count(o, HeadClose) = heads
                   /\ Count(o, ScriptGtag) = heads
                   /\ Count(o, ScriptAds) = heads
                   /\ Count(o, GtagConfig) = heads
        /\ (entry = "B" /\ BothConfigured /\ Calls(i) # <<>>)
            => LET p == Calls(i)[1].prompt
               IN  /\ Count(p, ScriptGtag) = 1
                   /\ Count(p, ScriptAds) = 1
                   /\ FirstIndex(p, ScriptAds) < FirstIndex(p, ScriptGtag)
                   /\ p[FirstIndex(p, ScriptAds) + 1] = env.adsId
                   /\ p[FirstIndex(p, ScriptGtag) + 1] = env.gaId

C7_Witness ==
    \E i \in Reqs :
        /\ entry = "A" /\ BothConfigured /\ Served(i)
        /\ Count(upstream[i].envelope.text, HeadOpen) = 2
        /\ Count(TheResponse(i).body.doc, ScriptAds) = 2

-----------------------------------------------------------------------------
(* C8 *)

\* C8: a missing analytics identifier gives no analytics snippet and a
\* missing ad-client identifier gives no ad snippet, each independently of the
\* other, in the served document of the structural variant and in the prompt
\* of the prompt-driven variants.
C8_AbsentIdNoSnippet ==
    \A i \in Reqs :
        /\ (entry = "A" /\ Served(i))
            => LET o == TheResponse(i).body.doc
               IN  /\ env.gaId = Absent => ~Has(o, ScriptGtag)
                   /\ env.adsId = Absent => ~Has(o, ScriptAds)
        /\ (entry # "A" /\ Calls(i) # <<>>)
            => LET p == Calls(i)[1].prompt
               IN  /\ env.gaId = Absent => ~Has(p, ScriptGtag)
                   /\ env.adsId = Absent => ~Has(p, ScriptAds)

-----------------------------------------------------------------------------
(* C9 *)

\* the outbound call or the read of its body was rejected
Rejected(i) == Done(i) /\ (upstream[i].fetch = "reject" \/ upstream[i].body = "reject")
RejectionOf(i) == IF upstream[i].fetch = "reject" THEN NetworkError ELSE BodyReadError

\* C9: in every entry point an unexpected exception at any stage is caught by
\* the handler and answered with an error status and an HTML error page that
\* embeds the exception's message, never with status 200.
C9_ExceptionIsErrorPage ==
    \A i \in Reqs :
        Rejected(i)
            => /\ Len(Responses(i)) = 1
               /\ TheResponse(i).status >= 400
               /\ TheResponse(i).ctype = HtmlType
               /\ TheResponse(i).body.msg = RejectionOf(i).msg

-----------------------------------------------------------------------------
(* C10 *)

\* C10: across any interleaving of concurrently handled requests, each
\* request makes at most one outbound call, none when its path is
\* /favicon.ico, and produces exactly one response, after which nothing is
\* sent or called for it.
C10_OneCallOneResponse ==
    \A i \in Reqs :
        /\ Len(Calls(i)) <= 1
        /\ req[i].path = Favicon => Calls(i) = <<>>
        /\ Len(Responses(i)) <= 1
        /\ Done(i) <=> Len(Responses(i)) = 1
        /\ Done(i) => IsResponse(out[i][Len(out[i])])

=============================================================================
